---- MODULE Spec2Model ----
(***************************************************************************)
(* Stiffness matrix of the perfectly square bilinear 4-noded element       *)
(* (notebooks/4_noded_square.ipynb).                                       *)
(*                                                                         *)
(* The notebook works on sympy expressions in the symbols x, y, nu, E, h   *)
(* and substitutes numbers for nu, E, h at the very end.  Here nu, E and h *)
(* are exact rationals chosen in Init, and an expression in x and y is a   *)
(* polynomial with rational coefficients, so that every step of the        *)
(* notebook (shape functions, differentiation, matrix products, definite   *)
(* integration, rounding to 3 significant digits) is computed exactly.     *)
(* Python floats (1.0/3.0, 8.0/3.0, 2.0, 1.00) are modelled by the         *)
(* rationals they approximate.                                             *)
(***************************************************************************)
EXTENDS Integers, Sequences, FiniteSets, TLC

VARIABLES nu, E, h, pc, err, C, N, dhdx, B, K_int, K, k, sched, kk, out

vars == <<nu, E, h, pc, err, C, N, dhdx, B, K_int, K, k, sched, kk, out>>

(***************************************************************************)
(* Bounds of the model.                                                    *)
(***************************************************************************)
MaxNuDen == 3
MaxEDen == 3
MaxH == 2
MaxCoord == 2
MaxStride == 2
MaxShift == 1

(***************************************************************************)
(* Exact rational arithmetic: a rational is <<n, d>> with d > 0 and        *)
(* gcd(n, d) = 1.                                                          *)
(***************************************************************************)
Abs(a) == IF a < 0 THEN -a ELSE a

RECURSIVE Gcd(_, _)
Gcd(a, b) == IF b = 0 THEN a ELSE Gcd(b, a % b)

Rat(n, d) ==
    LET g == Gcd(Abs(n), Abs(d))
        s == IF d < 0 THEN -1 ELSE 1
    IN  <<s * (n \div g), s * (d \div g)>>

Zero == <<0, 1>>
One == <<1, 1>>
RInt(n) == <<n, 1>>

RAdd(a, b) ==
    IF a[1] = 0 THEN b
    ELSE IF b[1] = 0 THEN a
    ELSE LET g == Gcd(a[2], b[2])
         IN  Rat(a[1] * (b[2] \div g) + b[1] * (a[2] \div g), (a[2] \div g) * b[2])
RNeg(a) == <<-a[1], a[2]>>
RSub(a, b) == RAdd(a, RNeg(b))
RMul(a, b) ==
    IF a[1] = 0 \/ b[1] = 0 THEN Zero
    ELSE LET g1 == Gcd(Abs(a[1]), b[2])
             g2 == Gcd(Abs(b[1]), a[2])
         IN  <<(a[1] \div g1) * (b[1] \div g2), (a[2] \div g2) * (b[2] \div g1)>>
RInv(a) == IF a[1] < 0 THEN <<-a[2], -a[1]>> ELSE <<a[2], a[1]>>
RDiv(a, b) == RMul(a, RInv(b))
RLess(a, b) == a[1] * b[2] < b[1] * a[2]
RLeq(a, b) == a[1] * b[2] <= b[1] * a[2]
RPos(a) == a[1] > 0
RIsZero(a) == a[1] = 0

RECURSIVE RPow(_, _)
RPow(a, n) == IF n = 0 THEN One ELSE RMul(a, RPow(a, n - 1))

RECURSIVE RSumOver(_, _)
RSumOver(f, S) ==
    IF S = {} THEN Zero
    ELSE LET e == CHOOSE e \in S : TRUE
         IN  RAdd(f[e], RSumOver(f, S \ {e}))

(***************************************************************************)
(* Expressions in x and y: a polynomial maps the exponent pair <<a, b>>    *)
(* to the coefficient of x^a y^b.  Every expression of the notebook has    *)
(* degree at most 2 in each variable.                                      *)
(***************************************************************************)
Deg == 0..2
Mono == Deg \X Deg

PConst(c) == [m \in Mono |-> IF m = <<0, 0>> THEN c ELSE Zero]
PZero == PConst(Zero)
PX == [m \in Mono |-> IF m = <<1, 0>> THEN One ELSE Zero]
PY == [m \in Mono |-> IF m = <<0, 1>> THEN One ELSE Zero]
PAdd(p, q) == [m \in Mono |-> RAdd(p[m], q[m])]
PSub(p, q) == [m \in Mono |-> RSub(p[m], q[m])]
PScale(c, p) == [m \in Mono |-> RMul(c, p[m])]
PMul(p, q) ==
    [m \in Mono |->
        LET parts == {s \in Mono : s[1] <= m[1] /\ s[2] <= m[2]}
            term == [s \in parts |-> RMul(p[s], q[<<m[1] - s[1], m[2] - s[2]>>])]
        IN  RSumOver(term, parts)]
PIsZero(p) == \A m \in Mono : RIsZero(p[m])

\* value of the expression p at the point (x, y) = (a, b)
PEval(p, a, b) ==
    LET term == [m \in Mono |-> RMul(p[m], RMul(RPow(a, m[1]), RPow(b, m[2])))]
    IN  RSumOver(term, Mono)

\* sym.diff(p, x) and sym.diff(p, y)
DiffX(p) ==
    [m \in Mono |-> IF m[1] = 2 THEN Zero ELSE RMul(RInt(m[1] + 1), p[<<m[1] + 1, m[2]>>])]
DiffY(p) ==
    [m \in Mono |-> IF m[2] = 2 THEN Zero ELSE RMul(RInt(m[2] + 1), p[<<m[1], m[2] + 1>>])]

(***************************************************************************)
(* shape4(x, y, h)                                                         *)
(***************************************************************************)
Nodes == 0..3
Dofs == 0..7
Strains == 0..2

\* 1/(4*h**2) divides by zero when h = 0
shape4Fails(hh) == RIsZero(hh)

\* shape4 with the sign of x wrong in its third entry
shape4WrongSign(hh) ==
    LET c == RInv(RMul(RInt(4), RPow(hh, 2)))
        hp == PConst(hh)
    IN  [i \in Nodes |->
            PScale(c,
                CASE i = 0 -> PMul(PAdd(hp, PX), PAdd(hp, PY))
                  [] i = 1 -> PMul(PSub(hp, PX), PAdd(hp, PY))
                  [] i = 2 -> PMul(PAdd(hp, PX), PSub(hp, PY))
                  [] i = 3 -> PMul(PAdd(hp, PX), PSub(hp, PY)))]

\* shape4 with its second and fourth entries exchanged (clockwise order)
shape4Clockwise(hh) ==
    LET c == RInv(RMul(RInt(4), RPow(hh, 2)))
        hp == PConst(hh)
    IN  [i \in Nodes |->
            PScale(c,
                CASE i = 0 -> PMul(PAdd(hp, PX), PAdd(hp, PY))
                  [] i = 1 -> PMul(PAdd(hp, PX), PSub(hp, PY))
                  [] i = 2 -> PMul(PSub(hp, PX), PSub(hp, PY))
                  [] i = 3 -> PMul(PSub(hp, PX), PAdd(hp, PY)))]

shape4(hh) ==
    LET c == RInv(RMul(RInt(4), RPow(hh, 2)))
        hp == PConst(hh)
    IN  [i \in Nodes |->
            PScale(c,
                CASE i = 0 -> PMul(PAdd(hp, PX), PAdd(hp, PY))
                  [] i = 1 -> PMul(PSub(hp, PX), PAdd(hp, PY))
                  [] i = 2 -> PMul(PSub(hp, PX), PSub(hp, PY))
                  [] i = 3 -> PMul(PAdd(hp, PX), PSub(hp, PY)))]


(***************************************************************************)
(* stdm4(x, y, h)                                                          *)
(***************************************************************************)
\* the first loop: dhdx[0,i] = diff(N[i], x), dhdx[1,i] = diff(N[i], y)
stdm4Dhdx(NN) ==
    [r \in 0..1 |-> [i \in Nodes |-> IF r = 0 THEN DiffX(NN[i]) ELSE DiffY(NN[i])]]

\* the second loop with the two entries of the shear row exchanged
stdm4BSwapped(dh) ==
    [r \in Strains |-> [c \in Dofs |->
        LET i == c \div 2
        IN  CASE r = 0 /\ c = 2 * i     -> dh[0][i]
              [] r = 1 /\ c = 2 * i + 1 -> dh[1][i]
              [] r = 2 /\ c = 2 * i     -> dh[0][i]
              [] r = 2 /\ c = 2 * i + 1 -> dh[1][i]
              [] OTHER -> PZero]]

\* the second loop with B[2, 2*i+1] = dhdx[1, i]
stdm4BShear(dh) ==
    [r \in Strains |-> [c \in Dofs |->
        LET i == c \div 2
        IN  CASE r = 0 /\ c = 2 * i     -> dh[0][i]
              [] r = 1 /\ c = 2 * i + 1 -> dh[1][i]
              [] r = 2 /\ c = 2 * i     -> dh[1][i]
              [] r = 2 /\ c = 2 * i + 1 -> dh[1][i]
              [] OTHER -> PZero]]

\* the second loop, on B = zeros(3,8)
stdm4B(dh) ==
    [r \in Strains |-> [c \in Dofs |->
        LET i == c \div 2
        IN  CASE r = 0 /\ c = 2 * i     -> dh[0][i]
              [] r = 1 /\ c = 2 * i + 1 -> dh[1][i]
              [] r = 2 /\ c = 2 * i     -> dh[1][i]
              [] r = 2 /\ c = 2 * i + 1 -> dh[0][i]
              [] OTHER -> PZero]]

(***************************************************************************)
(* umat(nu, E)                                                             *)
(***************************************************************************)
\* E/(1-nu**2) divides by zero when nu**2 = 1
umatFails(v) == RIsZero(RSub(One, RPow(v, 2)))

\* umat without the line C[1,0]=C[0,1]
umatNoMirror(v, e) ==
    LET G == RDiv(e, RSub(One, RPow(v, 2)))
        mnu == RDiv(RSub(One, v), RInt(2))
    IN  [a \in Strains |-> [b \in Strains |->
            CASE a = 0 /\ b = 0 -> G
              [] a = 0 /\ b = 1 -> RMul(v, G)
              [] a = 1 /\ b = 1 -> G
              [] a = 2 /\ b = 2 -> RMul(G, mnu)
              [] OTHER -> Zero]]

\* umat with mnu=(1+nu)/2.0
umatMnu(v, e) ==
    LET G == RDiv(e, RSub(One, RPow(v, 2)))
        mnu == RDiv(RAdd(One, v), RInt(2))
    IN  [a \in Strains |-> [b \in Strains |->
            CASE a = 0 /\ b = 0 -> G
              [] a = 0 /\ b = 1 -> RMul(v, G)
              [] a = 1 /\ b = 0 -> RMul(v, G)
              [] a = 1 /\ b = 1 -> G
              [] a = 2 /\ b = 2 -> RMul(G, mnu)
              [] OTHER -> Zero]]

umat(v, e) ==
    LET G == RDiv(e, RSub(One, RPow(v, 2)))
        mnu == RDiv(RSub(One, v), RInt(2))
    IN  [a \in Strains |-> [b \in Strains |->
            CASE a = 0 /\ b = 0 -> G
              [] a = 0 /\ b = 1 -> RMul(v, G)
              [] a = 1 /\ b = 0 -> RMul(v, G)
              [] a = 1 /\ b = 1 -> G
              [] a = 2 /\ b = 2 -> RMul(G, mnu)
              [] OTHER -> Zero]]

(***************************************************************************)
(* K_int = B.T*C*B                                                         *)
(***************************************************************************)
RECURSIVE PSumOver(_, _)
PSumOver(f, S) ==
    IF S = {} THEN PZero
    ELSE LET e == CHOOSE e \in S : TRUE
         IN  PAdd(f[e], PSumOver(f, S \ {e}))

Transpose(BB) == [c \in Dofs |-> [r \in Strains |-> BB[r][c]]]

\* (B.T*C)[i,b] = sum over a of B.T[i,a]*C[a,b]
MulBTC(BT, CC) ==
    [i \in Dofs |-> [b \in Strains |->
        PSumOver([a \in Strains |-> PScale(CC[a][b], BT[i][a])], Strains)]]

\* (M*B)[i,j] = sum over b of M[i,b]*B[b,j]
MulMB(M, BB) ==
    [i \in Dofs |-> [j \in Dofs |->
        PSumOver([b \in Strains |-> PMul(M[i][b], BB[b][j])], Strains)]]

KInt(BB, CC) == MulMB(MulBTC(Transpose(BB), CC), BB)

(***************************************************************************)
(* sym.integrate(p, (x, -h, h), (y, -h, h))                                *)
(***************************************************************************)
\* integral over x from lo to hi: an expression in y, exponent b |-> coefficient
IntX(p, lo, hi) ==
    [b \in Deg |->
        RSumOver([a \in Deg |->
            RMul(RDiv(p[<<a, b>>], RInt(a + 1)),
                 RSub(RPow(hi, a + 1), RPow(lo, a + 1)))], Deg)]

\* integral over y from lo to hi of an expression in y alone
IntY(q, lo, hi) ==
    RSumOver([b \in Deg |->
        RMul(RDiv(q[b], RInt(b + 1)),
             RSub(RPow(hi, b + 1), RPow(lo, b + 1)))], Deg)

\* integration over x in [0,h], y in [0,h]
integrateQuarter(p, hh) == IntY(IntX(p, Zero, hh), Zero, hh)

integrate(p, hh) == IntY(IntX(p, RNeg(hh), hh), RNeg(hh), hh)

(***************************************************************************)
(* sym.N(kk, 3): a number to 3 significant digits.  The result <<m, e>>    *)
(* stands for m * 10^(-e), with 100 <= |m| <= 999, or <<0, 0>> for 0.      *)
(***************************************************************************)
RECURSIVE Pow10(_)
Pow10(n) == IF n = 0 THEN 1 ELSE 10 * Pow10(n - 1)

\* |a| * 10^e as a rational, for e of either sign
Scaled(a, e) ==
    IF e >= 0 THEN Rat(Abs(a[1]) * Pow10(e), a[2]) ELSE Rat(Abs(a[1]), a[2] * Pow10(-e))

\* nearest integer to a rational >= 0
RoundNat(a) == (2 * a[1] + a[2]) \div (2 * a[2])

N3(a) ==
    IF a[1] = 0 THEN <<0, 0>>
    ELSE LET e == CHOOSE e \in -3..5 :
                    /\ RLeq(RInt(100), Scaled(a, e))
                    /\ RLess(Scaled(a, e), RInt(1000))
             m == RoundNat(Scaled(a, e))
             s == IF a[1] < 0 THEN -1 ELSE 1
         IN  IF m = 1000 THEN <<s * 100, e - 1>> ELSE <<s * m, e>>

(***************************************************************************)
(* The notebook.                                                           *)
(***************************************************************************)
\* the values the notebook substitutes: nuu = 1.0/3.0, EE = 8.0/3.0, h = 1.00
nuu == <<1, 3>>
EE == <<8, 3>>
hOne == <<1, 1>>

NuSet == {Rat(n, d) : n \in -1..2, d \in 1..MaxNuDen}
ESet == {Rat(8, d) : d \in 1..MaxEDen} \cup {RInt(-1)}
HSet == {RInt(n) : n \in -1..MaxH}

ZeroMat(rows, cols) == [r \in rows |-> [c \in cols |-> Zero]]
ZeroPMat(rows, cols) == [r \in rows |-> [c \in cols |-> PZero]]

\* the order in which the double loop visits the entries: for i, for j
RowMajor == <<1, 0, 0>>
EntryAt(s, n) ==
    LET idx == (s[1] * n + s[2]) % 64
    IN  IF s[3] = 0 THEN <<idx \div 8, idx % 8>> ELSE <<idx % 8, idx \div 8>>

InitWith(nus, es, hs, ss) ==
    /\ nu \in nus
    /\ E \in es
    /\ h \in hs
    /\ sched \in ss
    /\ pc = "umat"
    /\ err = "none"
    /\ C = ZeroMat(Strains, Strains)
    /\ B = ZeroPMat(Strains, Dofs)
    /\ K = ZeroMat(Dofs, Dofs)
    /\ N = [i \in Nodes |-> PZero]
    /\ dhdx = ZeroPMat(0..1, Nodes)
    /\ K_int = ZeroPMat(Dofs, Dofs)
    /\ k = 0
    /\ kk = ZeroMat(Dofs, Dofs)
    /\ out = <<>>

Init == InitWith(NuSet, ESet, HSet, {RowMajor})

\* C = umat(nu,E)
Umat ==
    /\ pc = "umat"
    /\ ~umatFails(nu)
    /\ C' = umat(nu, E)
    /\ pc' = "stdm4"
    /\ UNCHANGED <<nu, E, h, err, N, dhdx, B, K_int, K, k, sched, kk, out>>

UmatError ==
    /\ pc = "umat"
    /\ umatFails(nu)
    /\ err' = "ZeroDivisionError"
    /\ pc' = "failed"
    /\ UNCHANGED <<nu, E, h, C, N, dhdx, B, K_int, K, k, sched, kk, out>>

\* stdm4 rejecting every h <= 0
stdm4ErrorValidating(hh) == IF RLeq(hh, Zero) THEN "InvalidGeometry" ELSE "none"

\* the error stdm4(x, y, h) ends with, "none" when it returns
stdm4Error(hh) == IF shape4Fails(hh) THEN "ZeroDivisionError" ELSE "none"

\* B = stdm4(x , y , h)
Stdm4 ==
    /\ pc = "stdm4"
    /\ stdm4Error(h) = "none"
    /\ N' = shape4(h)
    /\ dhdx' = stdm4Dhdx(N')
    /\ B' = stdm4B(dhdx')
    /\ pc' = "kint"
    /\ UNCHANGED <<nu, E, h, err, C, K_int, K, k, sched, kk, out>>

Stdm4Error ==
    /\ pc = "stdm4"
    /\ stdm4Error(h) # "none"
    /\ err' = stdm4Error(h)
    /\ pc' = "failed"
    /\ UNCHANGED <<nu, E, h, C, N, dhdx, B, K_int, K, k, sched, kk, out>>

\* K_int = B.T*C*B
MkKInt ==
    /\ pc = "kint"
    /\ K_int' = KInt(B, C)
    /\ pc' = "loop"
    /\ UNCHANGED <<nu, E, h, err, C, N, dhdx, B, K, k, sched, kk, out>>

\* a loop body that reads the entry across the diagonal
loopBodyAccum(Kcur, Kin, i, j, hh) == RAdd(Kcur[j][i], integrate(Kin[i][j], hh))

\* the value the loop body assigns to K[i,j]
loopBody(Kcur, Kin, i, j, hh) == integrate(Kin[i][j], hh)

\* K[i,j] = sym.integrate(K_int[i,j], (x,-h,h), (y,-h,h))
Loop ==
    /\ pc = "loop"
    /\ k < 64
    /\ LET ij == EntryAt(sched, k)
       IN  K' = [K EXCEPT ![ij[1]][ij[2]] = loopBody(K, K_int, ij[1], ij[2], h)]
    /\ k' = k + 1
    /\ UNCHANGED <<nu, E, h, pc, err, C, N, dhdx, B, K_int, sched, kk, out>>

\* kk=K.subs([(E, EE), (nu, nuu), (h, 1.00)])
Subs ==
    /\ pc = "loop"
    /\ k = 64
    /\ kk' = K
    /\ pc' = "print"
    /\ UNCHANGED <<nu, E, h, err, C, N, dhdx, B, K_int, K, k, sched, out>>

\* print(sym.N(kk , 3))
PrintN ==
    /\ pc = "print"
    /\ out' = [i \in Dofs |-> [j \in Dofs |-> N3(kk[i][j])]]
    /\ pc' = "done"
    /\ UNCHANGED <<nu, E, h, err, C, N, dhdx, B, K_int, K, k, sched, kk>>

Next == Umat \/ UmatError \/ Stdm4 \/ Stdm4Error \/ MkKInt \/ Loop \/ Subs \/ PrintN

Spec == Init /\ [][Next]_vars

(***************************************************************************)
(* The matrix the notebook prints, to 3 significant digits.                *)
(***************************************************************************)
Kref ==
    LET a == <<133, 2>>
        b == <<500, 3>>
        c == <<-833, 3>>
        d == <<-667, 3>>
        e == <<-500, 3>>
        f == <<167, 3>>
        o == <<0, 0>>
    IN  << <<a, b, c, o, d, e, f, o>>,
           <<b, a, o, f, e, d, o, c>>,
           <<c, o, a, e, f, o, d, b>>,
           <<o, f, e, a, o, c, b, d>>,
           <<d, e, f, o, a, b, c, o>>,
           <<e, d, o, c, b, a, o, f>>,
           <<f, o, d, b, c, o, a, e>>,
           <<o, c, b, d, o, f, e, a>> >>

Reference == nu = nuu /\ E = EE /\ h = hOne

\* C1: with nu = 1/3, E = 8/3, h = 1 every one of the 64 entries of the
\* integrated matrix, rounded to 3 significant digits, is the entry of the
\* printed reference matrix; K[0,0] = 1.33, K[0,1] = 0.5, K[0,2] = -0.833,
\* K[0,4] = -0.667, K[0,6] = 0.167, K[0,3] = K[0,7] = 0.
C1_MatchesReference ==
    (pc = "done" /\ Reference) =>
        /\ \A i \in Dofs : \A j \in Dofs : out[i][j] = Kref[i + 1][j + 1]
        /\ out[0][0] = <<133, 2>>
        /\ out[0][1] = <<500, 3>>
        /\ out[0][2] = <<-833, 3>>
        /\ out[0][4] = <<-667, 3>>
        /\ out[0][6] = <<167, 3>>
        /\ out[0][3] = <<0, 0>>
        /\ out[0][7] = <<0, 0>>

C1_Witness == pc = "done" /\ Reference /\ K[0][0] = <<4, 3>> /\ out[7][7] = <<133, 2>>

(***************************************************************************)
(* Positions of the notebook.                                              *)
(***************************************************************************)
\* umat has returned C
UmatReturned == pc \in {"stdm4", "kint", "loop", "print", "done"} \/ (pc = "failed" /\ ~umatFails(nu))
\* stdm4 has just returned B (N, dhdx and B are not assigned again)
Stdm4Returned == pc = "kint"
\* the double loop has assigned all 64 entries of K
LoopFinished == (pc = "loop" /\ k = 64) \/ pc \in {"print", "done"}

\* C2: for every E, nu and h > 0 the integrated matrix is symmetric,
\* K[i,j] = K[j,i] for all i, j in 0..7.
C2_KSymmetric ==
    (LoopFinished /\ RPos(h)) => \A i \in Dofs : \A j \in Dofs : K[i][j] = K[j][i]

C2_Witness == LoopFinished /\ RPos(h) /\ ~RIsZero(nu) /\ ~RIsZero(K[0][1]) /\ K[0][1] = K[1][0]

(***************************************************************************)
(* Points at which the shape functions are evaluated.                      *)
(***************************************************************************)
Coords == {Rat(n, 2) : n \in -MaxCoord..MaxCoord}

\* node j of the element of half-width hh, counter-clockwise from (+h,+h)
NodeXY(j, hh) ==
    CASE j = 0 -> <<hh, hh>>
      [] j = 1 -> <<RNeg(hh), hh>>
      [] j = 2 -> <<RNeg(hh), RNeg(hh)>>
      [] j = 3 -> <<hh, RNeg(hh)>>

\* C3: for every x, y and every h > 0 the four entries of shape4(x, y, h)
\* sum to exactly 1: as expressions in x and y, and at every sampled point.
C3_PartitionOfUnity ==
    (Stdm4Returned /\ RPos(h)) =>
        /\ PSumOver(N, Nodes) = PConst(One)
        /\ \A a \in Coords : \A b \in Coords :
              RSumOver([i \in Nodes |-> PEval(N[i], a, b)], Nodes) = One

C3_Witness ==
    /\ pc = "kint"
    /\ RPos(h)
    /\ PEval(N[0], <<1, 2>>, <<-1, 1>>) # PEval(N[2], <<1, 2>>, <<-1, 1>>)
    /\ \A i \in Nodes : ~PIsZero(N[i])

\* C4: for every h > 0, entry i of shape4 evaluated at node j (nodes ordered
\* counter-clockwise from (+h,+h)) is 1 when i = j and 0 when i # j.
C4_KroneckerDelta ==
    (Stdm4Returned /\ RPos(h)) =>
        \A i \in Nodes : \A j \in Nodes :
            PEval(N[i], NodeXY(j, h)[1], NodeXY(j, h)[2]) = IF i = j THEN One ELSE Zero

C4_Witness ==
    /\ pc = "kint"
    /\ h = <<2, 1>>
    /\ PEval(N[1], <<-2, 1>>, <<2, 1>>) = One
    /\ PEval(N[1], Zero, Zero) = <<1, 4>>

(***************************************************************************)
(* The derivatives of the shape functions, worked out by hand:             *)
(* dN1/dx = (h+y)/(4h^2), dN2/dx = -(h+y)/(4h^2), dN3/dx = -(h-y)/(4h^2),  *)
(* dN4/dx = (h-y)/(4h^2), dN1/dy = (h+x)/(4h^2), dN2/dy = (h-x)/(4h^2),    *)
(* dN3/dy = -(h-x)/(4h^2), dN4/dy = -(h+x)/(4h^2).                         *)
(***************************************************************************)
AnalyticDx(i, hh) ==
    LET c == RDiv(One, RMul(RInt(4), RMul(hh, hh)))
        sx == IF i \in {0, 3} THEN One ELSE RInt(-1)
        sy == IF i \in {0, 1} THEN One ELSE RInt(-1)
    IN  [m \in Mono |->
            CASE m = <<0, 0>> -> RMul(sx, RMul(c, hh))
              [] m = <<0, 1>> -> RMul(sx, RMul(sy, c))
              [] OTHER -> Zero]

AnalyticDy(i, hh) ==
    LET c == RDiv(One, RMul(RInt(4), RMul(hh, hh)))
        sx == IF i \in {0, 3} THEN One ELSE RInt(-1)
        sy == IF i \in {0, 1} THEN One ELSE RInt(-1)
    IN  [m \in Mono |->
            CASE m = <<0, 0>> -> RMul(sy, RMul(c, hh))
              [] m = <<1, 0>> -> RMul(sy, RMul(sx, c))
              [] OTHER -> Zero]

\* C5: for every h > 0 and node i, B[0,2i] = dN_i/dx, B[0,2i+1] = 0,
\* B[1,2i] = 0, B[1,2i+1] = dN_i/dy, B[2,2i] = dN_i/dy, B[2,2i+1] = dN_i/dx,
\* with the exact analytic derivatives of entry i of shape4.
C5_BLayout ==
    (Stdm4Returned /\ RPos(h)) =>
        \A i \in Nodes :
            /\ B[0][2 * i] = AnalyticDx(i, h)
            /\ B[0][2 * i + 1] = PZero
            /\ B[1][2 * i] = PZero
            /\ B[1][2 * i + 1] = AnalyticDy(i, h)
            /\ B[2][2 * i] = AnalyticDy(i, h)
            /\ B[2][2 * i + 1] = AnalyticDx(i, h)

C5_Witness ==
    /\ pc = "kint"
    /\ h = <<2, 1>>
    /\ B[0][2][<<0, 1>>] = <<-1, 16>>
    /\ B[2][2] # B[2][3]

\* C6: for every E and every nu with nu^2 # 1, with G = E/(1-nu^2):
\* C[0,0] = C[1,1] = G, C[0,1] = C[1,0] = nu*G, C[2,2] = G*(1-nu)/2, every
\* other entry is 0, and C is symmetric.  (G is stated by G*(1-nu^2) = E.)
C6_UmatEntries ==
    (UmatReturned /\ ~RIsZero(RSub(One, RMul(nu, nu)))) =>
        LET G == C[0][0]
        IN  /\ RMul(G, RSub(One, RMul(nu, nu))) = E
            /\ C[1][1] = G
            /\ C[0][1] = RMul(nu, G)
            /\ C[1][0] = RMul(nu, G)
            /\ RMul(RInt(2), C[2][2]) = RMul(G, RSub(One, nu))
            /\ \A a \in Strains : \A b \in Strains :
                  (<<a, b>> \notin {<<0, 0>>, <<0, 1>>, <<1, 0>>, <<1, 1>>, <<2, 2>>}) => C[a][b] = Zero
            /\ \A a \in Strains : \A b \in Strains : C[a][b] = C[b][a]

C6_Witness == pc = "stdm4" /\ nu = nuu /\ E = EE /\ C[0][0] = <<3, 1>> /\ C[0][1] = One /\ C[2][2] = One

(***************************************************************************)
(* The constitutive matrix of the notebook's text:                         *)
(* E(1-nu)/((1+nu)(1-2nu)) * [[1, nu/(1-nu), 0], [nu/(1-nu), 1, 0],        *)
(* [0, 0, (1-2nu)/(2(1-nu))]].                                             *)
(***************************************************************************)
TextDefined(v) ==
    /\ ~RIsZero(RAdd(One, v))
    /\ ~RIsZero(RSub(One, v))
    /\ ~RIsZero(RSub(One, RMul(RInt(2), v)))

TextC(v, e) ==
    LET f == RDiv(RMul(e, RSub(One, v)),
                  RMul(RAdd(One, v), RSub(One, RMul(RInt(2), v))))
        r == RDiv(v, RSub(One, v))
        s == RDiv(RSub(One, RMul(RInt(2), v)), RMul(RInt(2), RSub(One, v)))
    IN  [a \in Strains |-> [b \in Strains |->
            CASE a = b /\ a < 2 -> f
              [] a # b /\ a < 2 /\ b < 2 -> RMul(f, r)
              [] a = 2 /\ b = 2 -> RMul(f, s)
              [] OTHER -> Zero]]

\* C7: umat(nu, E) evaluates the constitutive matrix of the notebook's text,
\* for every E and every nu for which that expression is defined.
C7_UmatIsTextMatrix == (UmatReturned /\ TextDefined(nu)) => C = TextC(nu, E)

(***************************************************************************)
(* Positive semidefiniteness and rank of a symmetric 8x8 matrix, by        *)
(* symmetric elimination: a symmetric matrix is positive semidefinite iff  *)
(* every pivot met is > 0, or is 0 with a zero row; the rank is the number *)
(* of positive pivots.                                                     *)
(***************************************************************************)
RECURSIVE Eliminate(_, _, _)
Eliminate(A, p, rank) ==
    IF p = 8 THEN [psd |-> TRUE, rank |-> rank]
    ELSE IF A[p][p][1] < 0 THEN [psd |-> FALSE, rank |-> rank]
    ELSE IF A[p][p][1] = 0
         THEN IF \A j \in p..7 : RIsZero(A[p][j])
              THEN Eliminate(A, p + 1, rank)
              ELSE [psd |-> FALSE, rank |-> rank]
    ELSE Eliminate(
            [i \in Dofs |-> [j \in Dofs |->
                IF i > p /\ j > p
                THEN RSub(A[i][j], RMul(A[i][p], RDiv(A[p][j], A[p][p])))
                ELSE A[i][j]]],
            p + 1, rank + 1)

IsSymmetric(A) == \A i \in Dofs : \A j \in Dofs : A[i][j] = A[j][i]

MatVec(A, u) == [i \in Dofs |-> RSumOver([j \in Dofs |-> RMul(A[i][j], u[j])], Dofs)]

\* the rigid body modes, degrees of freedom interleaved (u1, v1, u2, v2, ...)
TranslationX == [c \in Dofs |-> IF c % 2 = 0 THEN One ELSE Zero]
TranslationY == [c \in Dofs |-> IF c % 2 = 1 THEN One ELSE Zero]
Rotation(hh) ==
    [c \in Dofs |->
        IF c % 2 = 0 THEN RNeg(NodeXY(c \div 2, hh)[2]) ELSE NodeXY(c \div 2, hh)[1]]

ValidParameters == RPos(E) /\ RLeq(Zero, nu) /\ RLess(nu, <<1, 2>>) /\ RPos(h)

\* C8: for E > 0, 0 <= nu < 0.5, h > 0 the matrix K is positive semidefinite
\* and its null space has dimension exactly 3 (rank 5) and contains the two
\* rigid translations and the rigid rotation, which therefore span it.
C8_PsdRigidModes ==
    (pc = "done" /\ ValidParameters) =>
        /\ IsSymmetric(K)
        /\ Eliminate(K, 0, 0) = [psd |-> TRUE, rank |-> 5]
        /\ \A i \in Dofs : RIsZero(MatVec(K, TranslationX)[i])
        /\ \A i \in Dofs : RIsZero(MatVec(K, TranslationY)[i])
        /\ \A i \in Dofs : RIsZero(MatVec(K, Rotation(h))[i])

C8_Witness ==
    /\ pc = "done"
    /\ ValidParameters
    /\ nu = <<1, 3>>
    /\ h = <<2, 1>>
    /\ Rotation(h)[0] = <<-2, 1>>
    /\ Eliminate(K, 0, 0).rank = 5

(***************************************************************************)
(* Validation of the half-width.                                           *)
(***************************************************************************)
Stdm4Called == pc \in {"kint", "loop", "print", "done"} \/ (pc = "failed" /\ ~umatFails(nu))

\* C9 as stated: a half-width h <= 0 given to shape4 or stdm4 is rejected
\* with InvalidGeometry before any shape function, B entry or K entry is
\* computed, and no result is returned.
C9_InvalidGeometryRejected ==
    (Stdm4Called /\ RLeq(h, Zero)) =>
        /\ err = "InvalidGeometry"
        /\ pc = "failed"
        /\ N = [i \in Nodes |-> PZero]
        /\ B = ZeroPMat(Strains, Dofs)
        /\ K = ZeroMat(Dofs, Dofs)

\* C9 amended: shape4 and stdm4 do not validate h and never raise
\* InvalidGeometry.  For h < 0 they return the value of their formulas
\* (entry i of shape4 at -|h| is entry i+2 at |h|, B is not zero) and the
\* notebook goes on to K.  Only h = 0 fails, with the ZeroDivisionError of
\* 1/(4*h**2), before any shape function, B entry or K entry is computed.
C9_NoValidation ==
    /\ err # "InvalidGeometry"
    /\ (Stdm4Called /\ RLess(h, Zero)) =>
        /\ err = "none"
        /\ pc # "failed"
        /\ N = [i \in Nodes |-> shape4(RNeg(h))[(i + 2) % 4]]
        /\ \A i \in Nodes : ~PIsZero(B[0][2 * i])
    /\ (Stdm4Called /\ RIsZero(h)) =>
        /\ err = "ZeroDivisionError"
        /\ pc = "failed"
        /\ N = [i \in Nodes |-> PZero]
        /\ B = ZeroPMat(Strains, Dofs)
        /\ K = ZeroMat(Dofs, Dofs)

C9_Witness ==
    /\ pc = "done"
    /\ h = <<-1, 1>>
    /\ err = "none"
    /\ ~PIsZero(B[2][7])
    /\ ~RIsZero(K[0][0])

(***************************************************************************)
(* Orders of the 64 per-entry integrations.  A schedule <<a, b, t>> visits *)
(* at step n the entry number (a*n + b) mod 64 (a odd, so that every entry *)
(* is visited once), read row by row (t = 0) or column by column (t = 1).  *)
(* The notebook's double loop is the schedule <<1, 0, 0>>.                 *)
(***************************************************************************)
Schedules ==
    {<<a, b, t>> : a \in {2 * s + 1 : s \in 0..MaxStride} \cup {63},
                   b \in 0..MaxShift, t \in 0..1}

InitOrder == InitWith({nuu, One}, {EE}, {hOne, Zero}, Schedules)

SpecOrder == InitOrder /\ [][Next]_vars

\* the entries assigned by the first n steps
Written(n) == {EntryAt(sched, m) : m \in 0..(n - 1)}

\* C10: starting from K = zeros(8,8), each of the 64 entries is assigned
\* exactly once, K[i,j] being the integral of K_int[i,j] alone; whatever the
\* order of the 64 integrations, an entry already assigned holds that
\* integral and an entry not yet assigned holds 0, so the final K is the
\* same matrix for every order.
C10_OrderIndependent ==
    (pc \in {"loop", "print", "done"}) =>
        /\ Cardinality(Written(k)) = k
        /\ \A i \in Dofs : \A j \in Dofs :
              K[i][j] = IF <<i, j>> \in Written(k) THEN integrate(K_int[i][j], h) ELSE Zero
        /\ LoopFinished => Written(k) = Dofs \X Dofs

C10_Witness ==
    /\ pc = "done"
    /\ sched = <<63, 1, 1>>
    /\ Reference
    /\ K[0][0] = <<4, 3>>
    /\ K[1][0] = <<1, 2>>
    /\ K[7][1] = <<-5, 6>>

====
